---- MODULE Spec2Model ----
(***************************************************************************)
(* Model of the Ubbink Vigor integration: the Modbus client                *)
(* (modbus_client.py, UbbinkModbusClient) and the polling coordinator      *)
(* (coordinator.py, UbbinkVigorCoordinator).                               *)
(*                                                                         *)
(* Everything runs on one asyncio event loop, so a step of the model is    *)
(* what a task does between two points where it really suspends: the wait  *)
(* for the lock, the pacing sleep, the transport call, the connect call.   *)
(***************************************************************************)
EXTENDS Integers, Sequences, FiniteSets, TLC

\* ------------------------------------------------------------- bounds

\* A failing outcome of a poll cycle is taken only while the counter is below
\* this cap (the counter itself is unbounded in the code).
MaxFailures == 4
\* Optional batches allowed to fail in one poll cycle.
MaxFaults == 3

\* ------------------------------------------------------ program constants

MAX_FAILURES_BEFORE_BACKOFF == 3
BACKOFF_INTERVAL == 120
DEFAULT_SCAN_INTERVAL == 30

REG_MODBUS_CONTROL == 8000
REG_SWITCH_POSITION == 8001
REG_DESIRED_FLOW_RATE == 8002
REG_STANDBY == 8003
REG_FILTER_RESET == 8010
REG_APPLIANCE_RESET == 8011
REG_BYPASS_MODE == 6100
REG_BYPASS_TEMP_DWELLING == 6101
REG_BYPASS_TEMP_OUTSIDE == 6102

\* The tasks of the event loop: the coordinator's refresh and two callers of
\* the client's commands (entity actions).
Tasks == {"poll", "cmd1", "cmd2"}
CmdTasks == {"cmd1", "cmd2"}

\* ---------------------------------------------------------- register map

RegOp(kind, addr, n) == [kind |-> kind, addr |-> addr, n |-> n]
NoOp == RegOp("none", 0, 0)

Batch(kind, addr, count, fields) ==
    [kind |-> kind, addr |-> addr, count |-> count, fields |-> fields]

\* read_all_data: the sixteen batched reads, in order, with the keys each
\* one stores in the dict.
Batches == <<
    Batch("input", 4020, 5, {"active_function", "active_function_raw",
        "fan_control_type", "ventilation_mode", "ventilation_mode_raw",
        "supply_pressure", "exhaust_pressure"}),
    Batch("input", 4030, 8, {"fan_inlet_status", "supply_airflow_setpoint",
        "supply_airflow_actual", "supply_massflow", "supply_fan_speed",
        "supply_fan_temperature", "supply_fan_humidity"}),
    Batch("input", 4040, 8, {"fan_exhaust_status", "exhaust_airflow_actual",
        "exhaust_fan_speed", "exhaust_fan_temperature", "exhaust_fan_humidity"}),
    Batch("input", 4050, 2, {"bypass_status", "bypass_status_raw",
        "bypass_step_position"}),
    Batch("input", 4060, 2, {"preheater_status", "preheater_capacity"}),
    Batch("input", 4070, 3, {"frost_status_raw", "frost_heater_power",
        "frost_fan_reduction"}),
    Batch("input", 4080, 4, {"flow_switch_position", "outside_temperature",
        "dwelling_temperature", "rht_humidity"}),
    Batch("input", 4100, 1, {"filter_status"}),
    Batch("input", 4113, 3, {"operating_hours", "filter_hours"}),
    Batch("input", 4200, 4, {"co2_sensor1", "co2_sensor2"}),
    Batch("input", 4800, 2, {"system_error", "system_error_raw",
        "active_incident"}),
    Batch("input", 4010, 3, {"serial_number"}),
    Batch("holding", 6000, 4, {"flow_preset_holiday", "flow_preset_low",
        "flow_preset_normal", "flow_preset_high"}),
    Batch("holding", 6100, 3, {"bypass_mode", "bypass_mode_raw",
        "bypass_temp_dwelling", "bypass_temp_outside"}),
    Batch("holding", 6120, 1, {"filter_warning_days"}),
    Batch("holding", 8000, 4, {"modbus_control", "switch_position",
        "desired_flow_rate", "standby_status", "airflow_mode"}) >>

NumBatches == Len(Batches)
BatchOp(b) == RegOp(Batches[b].kind, Batches[b].addr, Batches[b].count)
FieldsOf(bs) == UNION {Batches[b].fields : b \in bs}

AIRFLOW_MODE_TO_SWITCH ==
    [m \in {"holiday", "low", "normal", "high"} |->
        CASE m = "holiday" -> 0 [] m = "low" -> 1 [] m = "normal" -> 2 [] m = "high" -> 3]
BYPASS_MODE_MAP == (0 :> "Automatic") @@ (1 :> "Closed") @@ (2 :> "Open")
\* {v: k for k, v in BYPASS_MODE_MAP.items()}
BYPASS_MODE_REVERSE ==
    [m \in {BYPASS_MODE_MAP[k] : k \in DOMAIN BYPASS_MODE_MAP} |->
        CHOOSE k \in DOMAIN BYPASS_MODE_MAP : BYPASS_MODE_MAP[k] = m]

\* ------------------------------------------------------------- state

VARIABLES
    clientObj,   \* self._client: "None", or a client object "connected" / "disconnected"
    locked,      \* self._lock: asyncio.Lock._locked
    waiters,     \* self._lock: asyncio.Lock._waiters, in arrival order
    pc,          \* per task: "idle", "connecting", "waiting", "sleep", "wire"
    op,          \* per task: the register operation it is in
    todo,        \* per caller: the register operations its command still issues
    ret,         \* per caller: what its last call returned, or the exception it let out
    batch,       \* read_all_data: the batch being read (the reads issued this cycle)
    data,        \* read_all_data: the keys of the dict under construction
    okReads,     \* the batches whose read succeeded in this cycle
    failures,    \* coordinator._consecutive_failures
    warned,      \* _maybe_backoff logged its warning in the cycle running or just over
    interval,    \* coordinator.update_interval, seconds
    lastCycle,   \* how the last cycle ended: "snapshot", "UpdateFailed", or the exception let out
    returned,    \* the keys of the dict the last cycle returned
    failedRun,   \* cycles in a row that produced no snapshot (counted up to the threshold)
    log,         \* the last three gate and wire events
    pending,     \* the tasks whose operation is submitted and not yet on the wire, in order
    before,      \* when the last cycle started: the counter, the interval, the
                 \* environment, and the followed caller's command that had
                 \* returned success (none once that caller calls again)
    conn,        \* the caller's connect() calls: the last outcome, what it returned,
                 \* and whether an earlier call failed
    trace,       \* per followed caller: its last command, the register operations
                 \* that call issued, the times it took the gate
    closes,      \* the caller's close() calls in a row, and self._client after the first
    dev,         \* the device: the words of the registers that are followed
    decoded,     \* read_all_data: the values decoded in this cycle from followed registers
    healthy      \* the environment: connect and the first batch read succeed from now on

vars == <<clientObj, locked, waiters, pc, op, todo, ret, batch, data, okReads,
          failures, interval, lastCycle, returned, failedRun, log, pending, before,
          conn, trace, closes, dev, decoded, healthy, warned>>

coordVars == <<failures, interval, lastCycle, returned, failedRun, before, warned>>
pollVars == <<batch, data, okReads, decoded>>

Ev(e, t) == [e |-> e, t |-> t]
NoEv == Ev("none", "none")
\* The log keeps the last three events.
Push(lg, evs) == SubSeq(lg \o evs, Len(lg \o evs) - 2, Len(lg \o evs))
Without(s, t) == SelectSeq(s, LAMBDA x : x # t)
Min(a, b) == IF a < b THEN a ELSE b
Max(a, b) == IF a > b THEN a ELSE b


\* ------------------------------------------------------------ commands

Cmd(name, mode, num) == [name |-> name, mode |-> mode, num |-> num]
Write(addr, value) == RegOp("write", addr, value)
ClampHighOnly(lo, hi, v) == IF v > hi THEN hi ELSE v
Clamp(lo, hi, v) == IF v < lo THEN lo ELSE IF v > hi THEN hi ELSE v
\* int(temp * 10) for a temperature given in hundredths of a degree:
\* int() truncates toward zero.
RoundTenths(h) == IF h >= 0 THEN (h + 5) \div 10 ELSE -((5 - h) \div 10)
TruncTenths(h) == IF h >= 0 THEN h \div 10 ELSE -((-h) \div 10)

\* set_airflow_mode: an unknown mode is rejected before any write.
AirflowOpsLateCheck(m) ==
    IF m = "wall_unit" THEN << Write(REG_MODBUS_CONTROL, 0) >>
    ELSE << Write(REG_MODBUS_CONTROL, 1) >>
         \o (IF m \in DOMAIN AIRFLOW_MODE_TO_SWITCH
             THEN << Write(REG_SWITCH_POSITION, AIRFLOW_MODE_TO_SWITCH[m]) >>
             ELSE << >>)
AirflowOpsSwitchFirst(m) ==
    IF m = "wall_unit" THEN << Write(REG_MODBUS_CONTROL, 0) >>
    ELSE IF m \in DOMAIN AIRFLOW_MODE_TO_SWITCH
         THEN << Write(REG_SWITCH_POSITION, AIRFLOW_MODE_TO_SWITCH[m]),
                 Write(REG_MODBUS_CONTROL, 1) >>
         ELSE << >>
AirflowOps(m) ==
    IF m = "wall_unit" THEN << Write(REG_MODBUS_CONTROL, 0) >>
    ELSE IF m \in DOMAIN AIRFLOW_MODE_TO_SWITCH
         THEN << Write(REG_MODBUS_CONTROL, 1),
                 Write(REG_SWITCH_POSITION, AIRFLOW_MODE_TO_SWITCH[m]) >>
         ELSE << >>

\* set_custom_flow_rate: max(0, min(rate, 400)), control mode 2, then the rate.
FlowRateOpsSwitchControl(r) ==
    << Write(REG_MODBUS_CONTROL, 1),
       Write(REG_DESIRED_FLOW_RATE, Clamp(0, 400, r)) >>
FlowRateOps(r) ==
    << Write(REG_MODBUS_CONTROL, 2),
       Write(REG_DESIRED_FLOW_RATE, Clamp(0, 400, r)) >>

\* set_bypass_mode: a name outside the reverse table is rejected.
BypassOpsOneBased(m) ==
    IF m \in DOMAIN BYPASS_MODE_REVERSE
    THEN << Write(REG_BYPASS_MODE, BYPASS_MODE_REVERSE[m] + 1) >>
    ELSE << >>
BypassOps(m) ==
    IF m \in DOMAIN BYPASS_MODE_REVERSE
    THEN << Write(REG_BYPASS_MODE, BYPASS_MODE_REVERSE[m]) >>
    ELSE << >>

\* set_bypass_temp_dwelling / set_bypass_temp_outside, the temperature given
\* in hundredths of a degree.
DwellingTempOps(h) ==
    << Write(REG_BYPASS_TEMP_DWELLING, Clamp(150, 350, TruncTenths(h))) >>
OutsideTempOps(h) ==
    << Write(REG_BYPASS_TEMP_OUTSIDE, Clamp(70, 150, TruncTenths(h))) >>

\* The register operations a call of the client issues, in order; none when
\* the argument is rejected before any write.
CommandOps(c) ==
    CASE c.name = "set_airflow_mode" -> AirflowOps(c.mode)
      [] c.name = "set_custom_flow_rate" -> FlowRateOps(c.num)
      [] c.name = "set_bypass_mode" -> BypassOps(c.mode)
      [] c.name = "reset_filter" -> << Write(REG_FILTER_RESET, 1) >>
      [] c.name = "reset_appliance" -> << Write(REG_APPLIANCE_RESET, 1) >>
      [] c.name = "set_standby" ->
            << Write(REG_STANDBY, IF c.mode = "True" THEN 1 ELSE 2) >>
      [] c.name = "set_bypass_temp_dwelling" -> DwellingTempOps(c.num)
      [] c.name = "set_bypass_temp_outside" -> OutsideTempOps(c.num)
      [] OTHER -> << >>

\* Inputs of the commands.
AirflowInputs == {"wall_unit", "holiday", "low", "normal", "high", "turbo"}
BypassInputs == {"Automatic", "Closed", "Open", "Ajar"}
RateInputs == {-10, 0, 150, 400, 500}
TempInputs == {-50, 699, 1055, 1500, 2099, 3500, 3600}

CommandEncoderCalls ==
    {Cmd("set_airflow_mode", m, 0) : m \in AirflowInputs}
    \cup {Cmd("set_custom_flow_rate", "", r) : r \in RateInputs}
    \cup {Cmd("set_bypass_mode", m, 0) : m \in BypassInputs}
    \cup {Cmd("set_bypass_temp_dwelling", "", h) : h \in TempInputs}
    \cup {Cmd("set_bypass_temp_outside", "", h) : h \in TempInputs}
    \cup {Cmd("set_standby", b, 0) : b \in {"True", "False"}}
    \cup {Cmd("reset_filter", "", 0), Cmd("reset_appliance", "", 0)}
\* The commands issued while a poll cycle runs.
ConcCommands ==
    {Cmd("set_airflow_mode", "low", 0), Cmd("set_custom_flow_rate", "", 150),
     Cmd("reset_filter", "", 0), Cmd("set_bypass_mode", "Ajar", 0)}

\* The optional batches let fail while commands run: the two that read the
\* registers the commands write (bypass configuration, remote control).
ConcFaulty == {14, 16}

\* ------------------------------------------------------------- decoding

\* Width of a register word (0x10000) and the first word read as negative (0x8000).
WORD == 65536
SIGN_BIT == 32768
Words == 0 .. (WORD - 1)

\* A value of the dict: None, an integer, round(x / 10.0, 1) held as tenths,
\* a label of a lookup table, f"Unknown ({word})", a string of digits, or an
\* integer of two words (the number hi * WORD + lo, held as its two base-WORD
\* digits because it can pass 2^31).
Val(kind, n, s, d) == [kind |-> kind, n |-> n, s |-> s, d |-> d]
NoneVal == Val("none", 0, "", << >>)
IntVal(n) == Val("int", n, "", << >>)
TenthsVal(n) == Val("tenths", n, "", << >>)
LabelVal(s) == Val("label", 0, s, << >>)
UnknownVal(w) == Val("unknown", w, "", << >>)
TextVal(d) == Val("text", 0, "", d)
WideVal(hi, lo) == Val("wide", 0, "", << hi, lo >>)
NoValues == [f \in {} |-> NoneVal]

FAN_STATUS_MAP ==
    (2 :> "No Communication") @@ (3 :> "Idle") @@ (4 :> "Running")
    @@ (5 :> "Blocked") @@ (6 :> "Fan Error")

\* map.get(word, f"Unknown ({word})")
Lookup(map, w) == IF w \in DOMAIN map THEN LabelVal(map[w]) ELSE UnknownVal(w)

\* _to_signed
ToSignedAbove(w) == IF w > SIGN_BIT THEN w - WORD ELSE w
ToSigned(w) == IF w >= SIGN_BIT THEN w - WORD ELSE w

\* round(word / 10.0, 1) if word <= 1000 else None
HumidityBelow(w) == IF w < 1000 THEN TenthsVal(w) ELSE NoneVal
Humidity(w) == IF w <= 1000 THEN TenthsVal(w) ELSE NoneVal

\* The dwelling temperature: 9999 (signed) stands for no value.
DwellingTempNoSentinel(w) == TenthsVal(ToSigned(w))
DwellingTemp(w) ==
    IF ToSigned(w) # 9999 THEN TenthsVal(ToSigned(w)) ELSE NoneVal

\* f"{n}" for a nibble: one digit below ten, two digits from ten on.
Digits(n) == IF n < 10 THEN << n >> ELSE << 1, n - 10 >>
\* f"{(reg >> 12) & 0xF}{(reg >> 8) & 0xF}{(reg >> 4) & 0xF}{reg & 0xF}"
WordTextLowFirst(w) ==
    Digits(w % 16) \o Digits((w \div 16) % 16)
    \o Digits((w \div 256) % 16) \o Digits((w \div 4096) % 16)
WordText(w) ==
    Digits((w \div 4096) % 16) \o Digits((w \div 256) % 16)
    \o Digits((w \div 16) % 16) \o Digits(w % 16)
\* serial = ""; for reg in regs: serial += ...
RECURSIVE SerialText(_)
SerialText(regs) ==
    IF regs = << >> THEN << >>
    ELSE WordText(Head(regs)) \o SerialText(Tail(regs))

\* (regs[0] << 16) | regs[1]: the shift makes hi the second base-WORD digit
\* over a first digit 0, and the or with a word below WORD makes that word
\* the first digit.
OperatingHoursSigned(hi, lo) == WideVal(ToSigned(hi), lo)
OperatingHours(hi, lo) == WideVal(hi, lo)

\* SWITCH_TO_AIRFLOW_MODE = {v: k for k, v in AIRFLOW_MODE_TO_SWITCH.items()}
SWITCH_TO_AIRFLOW_MODE ==
    [s \in {AIRFLOW_MODE_TO_SWITCH[m] : m \in DOMAIN AIRFLOW_MODE_TO_SWITCH} |->
        CHOOSE m \in DOMAIN AIRFLOW_MODE_TO_SWITCH : AIRFLOW_MODE_TO_SWITCH[m] = s]

\* The airflow mode derived from the control-mode word c and the switch word s.
AirflowModeNoControlTest(c, s) ==
    IF s \in DOMAIN SWITCH_TO_AIRFLOW_MODE THEN SWITCH_TO_AIRFLOW_MODE[s]
    ELSE "unknown"
AirflowMode(c, s) ==
    IF c = 0 THEN "wall_unit"
    ELSE IF c = 1
         THEN IF s \in DOMAIN SWITCH_TO_AIRFLOW_MODE
              THEN SWITCH_TO_AIRFLOW_MODE[s] ELSE "unknown"
    ELSE IF c = 2 THEN "custom"
    ELSE "unknown"

\* The keys and values a batch stores for the words regs it read (regs[1] is
\* the code's regs[0]); the batches the model decodes.
DecodeBatch(b, regs) ==
    CASE b = 2 ->
            ("fan_inlet_status" :> Lookup(FAN_STATUS_MAP, regs[1]))
            @@ ("supply_airflow_setpoint" :> IntVal(regs[2]))
            @@ ("supply_airflow_actual" :> IntVal(regs[3]))
            @@ ("supply_massflow" :> IntVal(regs[4]))
            @@ ("supply_fan_speed" :> IntVal(regs[5]))
            @@ ("supply_fan_temperature" :> TenthsVal(ToSigned(regs[7])))
            @@ ("supply_fan_humidity" :> Humidity(regs[8]))
      [] b = 3 ->
            ("fan_exhaust_status" :> Lookup(FAN_STATUS_MAP, regs[1]))
            @@ ("exhaust_airflow_actual" :> IntVal(regs[3]))
            @@ ("exhaust_fan_speed" :> IntVal(regs[5]))
            @@ ("exhaust_fan_temperature" :> TenthsVal(ToSigned(regs[7])))
            @@ ("exhaust_fan_humidity" :> Humidity(regs[8]))
      [] b = 7 ->
            ("flow_switch_position" :> IntVal(regs[1]))
            @@ ("outside_temperature" :> TenthsVal(ToSigned(regs[2])))
            @@ ("dwelling_temperature" :> DwellingTemp(regs[3]))
            @@ ("rht_humidity" :> Humidity(regs[4]))
      [] b = 9 ->
            ("operating_hours" :> OperatingHours(regs[1], regs[2]))
            @@ ("filter_hours" :> IntVal(regs[3]))
      [] b = 12 ->
            ("serial_number" :> TextVal(SerialText(regs)))
      [] b = 14 ->
            ("bypass_mode" :> Lookup(BYPASS_MODE_MAP, regs[1]))
            @@ ("bypass_mode_raw" :> IntVal(regs[1]))
            @@ ("bypass_temp_dwelling" :> TenthsVal(ToSigned(regs[2])))
            @@ ("bypass_temp_outside" :> TenthsVal(ToSigned(regs[3])))
      [] b = 16 ->
            ("modbus_control" :> IntVal(regs[1]))
            @@ ("switch_position" :> IntVal(regs[2]))
            @@ ("desired_flow_rate" :> IntVal(regs[3]))
            @@ ("standby_status" :> IntVal(regs[4]))
            @@ ("airflow_mode" :> LabelVal(AirflowMode(regs[1], regs[2])))
      [] OTHER -> NoValues
DecodedBatches == {2, 3, 7, 9, 12, 14, 16}

BatchAddrs(b) == Batches[b].addr .. (Batches[b].addr + Batches[b].count - 1)

\* ------------------------------------------------- transport and gate

\* What a call of the pymodbus client can do: return words / an acknowledgement,
\* return an error response, or raise.
Outcomes == {"ok", "error_response", "ModbusException", "TimeoutError",
             "ConnectionError", "OSError"}
CtorOutcomes == {"ok", "raise"}
ConnectOutcomes == {"True", "False", "TimeoutError", "OSError"}

\* The primitives' result for an outcome of the transport call: "ok", "fail"
\* (None / False), or the exception that leaves the primitive.
Handle(out) ==
    IF out = "ok" THEN "ok"
    ELSE IF out = "error_response" THEN "fail"
    ELSE IF out \in {"ModbusException", "TimeoutError", "ConnectionError"} THEN "fail"
    ELSE out

\* asyncio.Lock.acquire: taken at once only when free with nobody queued.
CanAcquireAlways(lk, ws) == TRUE
CanAcquireNow(lk, ws) == ~lk /\ ws = << >>
\* async with self._lock: the lock after the block was left with result r,
\* by a return or by an exception.
LockKeptOnRaise(r) == r \notin {"ok", "fail"}
LockAfter(r) == FALSE
\* asyncio.Lock.release wakes the first waiter.
LastWaiter(ws) == ws[Len(ws)]
NextWaiter(ws) == Head(ws)

\* Inside the gate: the pacing sleep comes first.
EnterGateNoDelay(t) == [pc |-> "wire", evs |-> << Ev("gate", t), Ev("request", t) >>]
EnterGate(t) == [pc |-> "sleep", evs |-> << Ev("gate", t), Ev("delay", t) >>]

\* connect(): what it returns for an outcome of the library's connect call.
ConnectLetsOut(out) == out
ConnectResult(out) == IF out = "True" THEN "True" ELSE "False"

\* close(): only an existing client object is closed; what the call returns.
CloseUnguarded(c) == IF c = "None" THEN "AttributeError" ELSE "none"
CloseResult(c) == "none"
Close(c) == IF c = "None" THEN "None" ELSE "disconnected"

\* The airflow mode the device's control registers stand for, when they are
\* followed.
ModeInForce ==
    IF {REG_MODBUS_CONTROL, REG_SWITCH_POSITION} \subseteq DOMAIN dev
    THEN AirflowMode(dev[REG_MODBUS_CONTROL], dev[REG_SWITCH_POSITION])
    ELSE ""

\* What is recorded of a followed caller: a call starts (with the airflow
\* mode then in force), it issues a register
\* operation (taking the gate at once or queueing), it takes the gate later,
\* a register operation ends with a result, the entity that made the call
\* asks the coordinator for a refresh.
NoCall == Cmd("none", "", 0)
NoRecord == [call |-> NoCall, ops |-> << >>, gates |-> 0, res |-> << >>,
             refresh |-> FALSE, was |-> ""]
Called(tr, t, c) ==
    IF t \in DOMAIN tr
    THEN [tr EXCEPT ![t] = [NoRecord EXCEPT !.call = c, !.was = ModeInForce]]
    ELSE tr
Issued(tr, t, o, now) ==
    IF t \in DOMAIN tr
    THEN [tr EXCEPT ![t].ops = Append(@, o),
                    ![t].gates = @ + (IF now THEN 1 ELSE 0)]
    ELSE tr
Entered(tr, t) ==
    IF t \in DOMAIN tr THEN [tr EXCEPT ![t].gates = @ + 1] ELSE tr
Resulted(tr, t, r) ==
    IF t \in DOMAIN tr THEN [tr EXCEPT ![t].res = Append(@, r)] ELSE tr
NoCloses == [n |-> 0, after |-> "None"]

\* The entities' handlers: ok = await client.<command>(...), then
\* if ok: await self.coordinator.async_request_refresh(). The appliance reset
\* button only logs, and set_standby is called by no entity.
RefreshingCommands ==
    {"set_airflow_mode", "set_bypass_mode", "set_custom_flow_rate",
     "set_bypass_temp_dwelling", "set_bypass_temp_outside", "reset_filter"}
RequestsRefresh(c, r) == r = "ok" /\ c.name \in RefreshingCommands
Refreshed(tr, t, r) ==
    IF t \in DOMAIN tr
    THEN [tr EXCEPT ![t].refresh = RequestsRefresh(tr[t].call, r)] ELSE tr

\* The device keeps the word of a write it acknowledged; when the transport
\* call ended with an exception the device has executed the write or not.
Stores(out) ==
    IF out = "ok" THEN {TRUE}
    ELSE IF out = "error_response" THEN {FALSE}
    ELSE BOOLEAN
Stored(d, o, st) ==
    IF st /\ o.kind = "write" /\ o.addr \in DOMAIN d
    THEN [d EXCEPT ![o.addr] = o.n] ELSE d

\* The values batch b adds to the dict when it read the followed registers.
Decoded(b, dcd) ==
    IF BatchAddrs(b) \subseteq DOMAIN dev
    THEN DecodeBatch(b, [i \in 1 .. Batches[b].count |-> dev[Batches[b].addr + i - 1]])
         @@ dcd
    ELSE dcd

\* Task t calls a primitive for operation o, with the lock in state lk.
Begin(t, o, lk, lg, pnd, tr) ==
    /\ op' = [op EXCEPT ![t] = o]
    /\ trace' = Issued(tr, t, o, CanAcquireNow(lk, waiters))
    /\ pending' = Append(pnd, t)
    /\ IF CanAcquireNow(lk, waiters)
       THEN /\ locked' = TRUE
            /\ waiters' = waiters
            /\ pc' = [pc EXCEPT ![t] = EnterGate(t).pc]
            /\ log' = Push(lg, EnterGate(t).evs)
       ELSE /\ locked' = lk
            /\ waiters' = Append(waiters, t)
            /\ pc' = [pc EXCEPT ![t] = "waiting"]
            /\ log' = lg

\* Task t is done with the client, with the lock in state lk.
Idle(t, lk, lg, pnd, tr) ==
    /\ op' = [op EXCEPT ![t] = NoOp]
    /\ trace' = tr
    /\ pending' = pnd
    /\ locked' = lk
    /\ waiters' = waiters
    /\ pc' = [pc EXCEPT ![t] = "idle"]
    /\ log' = lg


\* ---------------------------------------------------------- coordinator

\* _maybe_backoff, given the counter just incremented: the interval it
\* leaves, and whether it logs its warning.
NeverBackoff(f, iv) == iv
MaybeBackoffAbove(f, iv) ==
    IF f > MAX_FAILURES_BEFORE_BACKOFF THEN BACKOFF_INTERVAL ELSE iv
MaybeBackoff(f, iv) ==
    IF f >= MAX_FAILURES_BEFORE_BACKOFF THEN BACKOFF_INTERVAL ELSE iv
WarnsEveryCycle(f, iv) == f >= MAX_FAILURES_BEFORE_BACKOFF
Warns(f, iv) == f >= MAX_FAILURES_BEFORE_BACKOFF /\ iv # BACKOFF_INTERVAL

\* _async_update_data, the step that returns the snapshot.
KeepInterval(f, iv) == iv
RestoredInterval(f, iv) == IF f > 0 THEN DEFAULT_SCAN_INTERVAL ELSE iv
ResetFailures(f) == IF f > 0 THEN 0 ELSE f

\* read_all_data: the dict starts empty; a batch stores its keys when its
\* read returned words; only the first batch ends the cycle when it fails.
FreshData == {}
StoreAlways(b, r, d) == d \cup Batches[b].fields
Store(b, r, d) == IF r = "ok" THEN d \cup Batches[b].fields ELSE d
NeverAborts(b, r) == FALSE
Aborts(b, r) == b = 1 /\ r = "fail"

\* The optional batches that failed so far in this cycle.
FaultsSoFar == (batch - 1) - Cardinality(okReads)

\* The cycle ends with UpdateFailed: counter, backoff; client is what is left
\* of self._client.
CycleFailed(client, lk, lg, pnd) ==
    /\ failures' = failures + 1
    /\ interval' = MaybeBackoff(failures + 1, interval)
    /\ warned' = Warns(failures + 1, interval)
    /\ lastCycle' = "UpdateFailed"
    /\ failedRun' = Min(failedRun + 1, MAX_FAILURES_BEFORE_BACKOFF)
    /\ returned' = {}
    /\ clientObj' = client
    /\ data' = {}
    /\ Idle("poll", lk, lg, pnd, trace)

\* An exception leaves _async_update_data: nothing of the coordinator changes.
CycleRaised(exc, lk, lg, pnd) ==
    /\ lastCycle' = exc
    /\ failedRun' = Min(failedRun + 1, MAX_FAILURES_BEFORE_BACKOFF)
    /\ returned' = {}
    /\ data' = {}
    /\ UNCHANGED <<failures, interval, clientObj, warned>>
    /\ Idle("poll", lk, lg, pnd, trace)

\* The cycle returns the dict d.
CycleReturns(d, lk, lg, pnd) ==
    /\ failures' = ResetFailures(failures)
    /\ interval' = RestoredInterval(failures, interval)
    /\ lastCycle' = "snapshot"
    /\ UNCHANGED warned
    /\ failedRun' = 0
    /\ returned' = d
    /\ data' = {}
    /\ UNCHANGED clientObj
    /\ Idle("poll", lk, lg, pnd, trace)

\* The poll task's primitive for the current batch ended with r.
PollFinish(r, lk, lg, pnd) ==
    /\ UNCHANGED <<todo, ret, before, conn, closes, healthy>>
    /\ decoded' = IF r = "ok" THEN Decoded(batch, decoded) ELSE decoded
    /\ IF r \notin {"ok", "fail"}
       THEN CycleRaised(r, lk, lg, pnd) /\ UNCHANGED <<batch, okReads>>
       ELSE IF Aborts(batch, r)
       THEN CycleFailed(Close(clientObj), lk, lg, pnd) /\ UNCHANGED <<batch, okReads>>
       ELSE /\ okReads' = IF r = "ok" THEN okReads \cup {batch} ELSE okReads
            /\ IF batch < NumBatches
               THEN /\ batch' = batch + 1
                    /\ data' = Store(batch, r, data)
                    /\ Begin("poll", BatchOp(batch + 1), lk, lg, pnd, trace)
                    /\ UNCHANGED <<clientObj, failures, interval, lastCycle,
                                   returned, failedRun, warned>>
               ELSE /\ batch' = batch
                    /\ CycleReturns(Store(batch, r, data), lk, lg, pnd)

\* ok = await self._write_register(...); if not ok: return False: the
\* command goes on to the writes left (rest) only after a write that
\* returned true.
ContinuesAlways(r, rest) == rest # << >>
Continues(r, rest) == r = "ok" /\ rest # << >>

\* A caller's primitive ended with r.
CmdFinish(t, r, lk, lg, pnd) ==
    /\ UNCHANGED <<clientObj, pollVars, coordVars, conn, closes, healthy>>
    /\ IF Continues(r, todo[t])
       THEN /\ Begin(t, Head(todo[t]), lk, lg, pnd, Resulted(trace, t, r))
            /\ todo' = [todo EXCEPT ![t] = Tail(@)]
            /\ UNCHANGED ret
       ELSE /\ Idle(t, lk, lg, pnd, Refreshed(Resulted(trace, t, r), t, r))
            /\ todo' = [todo EXCEPT ![t] = << >>]
            /\ ret' = [ret EXCEPT ![t] =
                          IF r = "ok" THEN "True" ELSE IF r = "fail" THEN "False" ELSE r]

Finish(t, r, lk, lg, pnd) ==
    IF t = "poll" THEN PollFinish(r, lk, lg, pnd) ELSE CmdFinish(t, r, lk, lg, pnd)

\* -------------------------------------------------------------- actions

\* A waiter woken by release() takes the lock and starts its pacing sleep.
Wake(t) ==
    /\ pc[t] = "waiting"
    /\ ~locked
    /\ waiters # << >>
    /\ t = NextWaiter(waiters)
    /\ locked' = TRUE
    /\ waiters' = Without(waiters, t)
    /\ pc' = [pc EXCEPT ![t] = EnterGate(t).pc]
    /\ log' = Push(log, EnterGate(t).evs)
    /\ trace' = Entered(trace, t)
    /\ UNCHANGED <<clientObj, op, todo, ret, pollVars, coordVars, pending, conn,
                   closes, dev, healthy>>

\* The pacing sleep is over: the transport call is made. With no client
\* object the call is an attribute access on None.
Send(t) ==
    /\ pc[t] = "sleep"
    /\ UNCHANGED dev
    /\ IF clientObj = "None"
       THEN Finish(t, "AttributeError", LockAfter("AttributeError"),
                   Push(log, << Ev("done", t) >>), Without(pending, t))
       ELSE /\ pc' = [pc EXCEPT ![t] = "wire"]
            /\ log' = Push(log, << Ev("request", t) >>)
            /\ pending' = Without(pending, t)
            /\ UNCHANGED <<clientObj, locked, waiters, op, todo, ret, pollVars,
                           coordVars, conn, trace, closes, healthy>>

\* The transport call ends with out; the lock is released; the task runs on
\* to its next suspension. faulty are the optional batches let fail.
Reply(t, out, faulty) ==
    /\ pc[t] = "wire"
    /\ out = "ok" => clientObj = "connected"
    /\ (t = "poll" /\ Handle(out) = "fail") =>
           IF batch = 1 THEN failures < MaxFailures
           ELSE batch \in faulty /\ FaultsSoFar < MaxFaults
    /\ (healthy /\ t = "poll" /\ batch = 1) => out = "ok"
    /\ \E st \in Stores(out) : dev' = Stored(dev, op[t], st)
    /\ Finish(t, Handle(out), LockAfter(Handle(out)),
              Push(log, << Ev("done", t) >>), Without(pending, t))

\* A caller invokes a command (or test_connection).
CmdStart(t, c) ==
    /\ pc[t] = "idle"
    /\ UNCHANGED <<clientObj, pollVars, failures, interval, lastCycle, returned,
                   failedRun, conn, dev, healthy, warned>>
    /\ closes' = NoCloses
    /\ before' = IF t \in DOMAIN trace THEN [before EXCEPT !.done = NoCall]
                 ELSE before
    /\ IF CommandOps(c) = << >>
       THEN /\ ret' = [ret EXCEPT ![t] = "False"]
            /\ trace' = Called(trace, t, c)
            /\ UNCHANGED <<locked, waiters, pc, op, todo, log, pending>>
       ELSE /\ ret' = [ret EXCEPT ![t] = "none"]
            /\ todo' = [todo EXCEPT ![t] = Tail(CommandOps(c))]
            /\ Begin(t, Head(CommandOps(c)), locked, log, pending,
                     Called(trace, t, c))

\* The followed caller's last call, when it is a command that returned success.
Completed ==
    IF "cmd1" \in DOMAIN trace /\ ret["cmd1"] = "True"
    THEN trace["cmd1"].call ELSE NoCall

\* _async_update_data starts: reconnect when the client is not connected.
PollStart(ctor) ==
    /\ pc["poll"] = "idle"
    /\ before' = [failures |-> failures, interval |-> interval,
                  healthy |-> healthy, done |-> Completed]
    /\ okReads' = {}
    /\ decoded' = NoValues
    /\ UNCHANGED <<todo, ret, conn, closes, dev, healthy>>
    /\ healthy => ctor = "ok"
    /\ IF clientObj # "connected"
       THEN IF ctor = "raise"
            THEN /\ failures < MaxFailures
                 /\ batch' = 0
                 /\ CycleFailed(clientObj, locked, log, pending)
            ELSE /\ clientObj' = "disconnected"
                 /\ pc' = [pc EXCEPT !["poll"] = "connecting"]
                 /\ batch' = 0
                 /\ data' = {}
                 /\ lastCycle' = "running"
                 /\ returned' = {}
                 /\ warned' = FALSE
                 /\ UNCHANGED <<locked, waiters, op, log, pending, failures,
                                interval, failedRun, trace>>
       ELSE /\ ctor = "ok"
            /\ batch' = 1
            /\ data' = FreshData
            /\ lastCycle' = "running"
            /\ returned' = {}
            /\ warned' = FALSE
            /\ Begin("poll", BatchOp(1), locked, log, pending, trace)
            /\ UNCHANGED <<clientObj, failures, interval, failedRun>>

\* The coordinator's connect() call ends.
PollConnectDone(out) ==
    /\ pc["poll"] = "connecting"
    /\ UNCHANGED <<todo, ret, before, conn, okReads, decoded, closes, dev, healthy>>
    /\ healthy => out = "True"
    /\ IF ConnectResult(out) = "True"
       THEN /\ clientObj' = "connected"
            /\ batch' = 1
            /\ data' = FreshData
            /\ Begin("poll", BatchOp(1), locked, log, pending, trace)
            /\ UNCHANGED <<failures, interval, lastCycle, returned, failedRun,
                           warned>>
       ELSE IF ConnectResult(out) = "False"
       THEN /\ failures < MaxFailures
            /\ batch' = 0
            /\ CycleFailed(clientObj, locked, log, pending)
       ELSE /\ batch' = 0
            /\ CycleRaised(ConnectResult(out), locked, log, pending)

\* A caller of the client calls connect(): the client object is built, then
\* the library's connect call is awaited.
ApiConnect(t, ctor) ==
    /\ pc[t] = "idle"
    /\ UNCHANGED <<locked, waiters, op, todo, pollVars, coordVars, log, pending,
                   dev, healthy>>
    /\ trace' = Called(trace, t, NoCall)
    /\ closes' = NoCloses
    /\ IF ctor = "raise"
       THEN /\ ret' = [ret EXCEPT ![t] = "False"]
            /\ conn' = [last |-> "ctor", result |-> "False", failedBefore |-> TRUE]
            /\ UNCHANGED <<clientObj, pc>>
       ELSE /\ clientObj' = "disconnected"
            /\ pc' = [pc EXCEPT ![t] = "connecting"]
            /\ ret' = [ret EXCEPT ![t] = "none"]
            /\ conn' = [conn EXCEPT !.last = "pending", !.result = "none"]

ApiConnectDone(t, out) ==
    /\ pc[t] = "connecting"
    /\ pc' = [pc EXCEPT ![t] = "idle"]
    /\ clientObj' = IF out = "True" THEN "connected" ELSE clientObj
    /\ ret' = [ret EXCEPT ![t] = ConnectResult(out)]
    /\ conn' = [last |-> out, result |-> ConnectResult(out),
                failedBefore |-> conn.failedBefore \/ out # "True"]
    /\ UNCHANGED <<locked, waiters, op, todo, pollVars, coordVars, log, pending,
                   trace, closes, dev, healthy>>

\* A caller of the client calls close().
ApiCloseResets(t) ==
    /\ pc[t] = "idle"
    /\ clientObj' = Close(clientObj)
    /\ ret' = [ret EXCEPT ![t] = CloseResult(clientObj)]
    /\ closes' = IF closes.n = 0 THEN [n |-> 1, after |-> Close(clientObj)]
                 ELSE [closes EXCEPT !.n = 2]
    /\ trace' = Called(trace, t, NoCall)
    /\ failures' = 0
    /\ UNCHANGED <<locked, waiters, pc, op, todo, pollVars, interval, lastCycle,
                   returned, failedRun, before, warned, log, pending, conn, dev,
                   healthy>>
ApiClose(t) ==
    /\ pc[t] = "idle"
    /\ clientObj' = Close(clientObj)
    /\ ret' = [ret EXCEPT ![t] = CloseResult(clientObj)]
    /\ closes' = IF closes.n = 0 THEN [n |-> 1, after |-> Close(clientObj)]
                 ELSE [closes EXCEPT !.n = 2]
    /\ trace' = Called(trace, t, NoCall)
    /\ UNCHANGED <<locked, waiters, pc, op, todo, pollVars, coordVars, log,
                   pending, conn, dev, healthy>>

\* The link drops (TCP reset, bridge rebooted).
LinkDrop ==
    /\ clientObj = "connected"
    /\ ~healthy
    /\ clientObj' = "disconnected"
    /\ UNCHANGED <<locked, waiters, pc, op, todo, ret, pollVars, coordVars, log,
                   pending, conn, trace, closes, dev, healthy>>

\* Between two cycles the outage ends: from now on the link can be opened and
\* stays up, and the first batch is answered.
Heal ==
    /\ pc["poll"] = "idle"
    /\ ~healthy
    /\ healthy' = TRUE
    /\ UNCHANGED <<clientObj, locked, waiters, pc, op, todo, ret, pollVars,
                   coordVars, log, pending, conn, trace, closes, dev>>

\* read_all_data decodes the words batch b read.
DecodeStep(b) ==
    /\ BatchAddrs(b) \subseteq DOMAIN dev
    /\ decoded = NoValues
    /\ decoded' = Decoded(b, decoded)
    /\ UNCHANGED <<clientObj, locked, waiters, pc, op, todo, ret, batch, data,
                   okReads, coordVars, log, pending, conn, trace, closes, dev,
                   healthy>>

\* ------------------------------------------------------- specifications

\* The state in which the coordinator is constructed: async_setup_entry
\* goes on only after connect() returned true.
Init ==
    /\ clientObj = "connected"
    /\ locked = FALSE
    /\ waiters = << >>
    /\ pc = [t \in Tasks |-> "idle"]
    /\ op = [t \in Tasks |-> NoOp]
    /\ todo = [t \in CmdTasks |-> << >>]
    /\ ret = [t \in CmdTasks |-> "none"]
    /\ batch = 0
    /\ data = {}
    /\ okReads = {}
    /\ failures = 0
    /\ interval = DEFAULT_SCAN_INTERVAL
    /\ lastCycle = "none"
    /\ returned = {}
    /\ failedRun = 0
    /\ log = << NoEv, NoEv, NoEv >>
    /\ pending = << >>
    /\ before = [failures |-> 0, interval |-> DEFAULT_SCAN_INTERVAL,
                 healthy |-> FALSE, done |-> NoCall]
    /\ conn = [last |-> "none", result |-> "none", failedBefore |-> FALSE]
    /\ closes = NoCloses
    /\ decoded = NoValues
    /\ healthy = FALSE
    /\ warned = FALSE
    /\ trace = [t \in {} |-> NoRecord]
    /\ dev = [a \in {} |-> 0]

Next ==
    \/ \E t \in CmdTasks, c \in ConcCommands : CmdStart(t, c)
    \/ \E t \in Tasks : Wake(t)
    \/ \E t \in Tasks : Send(t)
    \/ \E t \in Tasks, out \in Outcomes : Reply(t, out, ConcFaulty)
    \/ \E ctor \in CtorOutcomes : PollStart(ctor)
    \/ \E out \in ConnectOutcomes : PollConnectDone(out)
    \/ LinkDrop

Spec == Init /\ [][Next]_vars

\* Poll cycles alone, one after the other.
NextCycle ==
    \/ Send("poll")
    \/ \E out \in Outcomes : Reply("poll", out, 2..NumBatches)
    \/ \E ctor \in CtorOutcomes : PollStart(ctor)
    \/ \E out \in ConnectOutcomes : PollConnectDone(out)
    \/ LinkDrop

SpecCycle == Init /\ [][NextCycle]_vars

\* The coordinator polling while one caller uses the whole client: the
\* commands, connect() and close().
NextFrame ==
    \/ \E c \in ConcCommands : CmdStart("cmd1", c)
    \/ \E t \in {"poll", "cmd1"} : Wake(t)
    \/ \E t \in {"poll", "cmd1"} : Send(t)
    \/ \E t \in {"poll", "cmd1"}, out \in Outcomes : Reply(t, out, {})
    \/ \E ctor \in CtorOutcomes : PollStart(ctor)
    \/ \E out \in ConnectOutcomes : PollConnectDone(out)
    \/ \E ctor \in CtorOutcomes : ApiConnect("cmd1", ctor)
    \/ \E out \in ConnectOutcomes : ApiConnectDone("cmd1", out)
    \/ ApiClose("cmd1")
    \/ LinkDrop

SpecFrame == Init /\ [][NextFrame]_vars

\* Poll cycles through an outage that may end. The coordinator starts the
\* next refresh when its interval has passed, whatever the last cycle's end,
\* and every await of a cycle completes (the library's timeouts): the poll
\* task always takes its next step.
LiveFaulty == {2, 14}
PollStep ==
    \/ Send("poll")
    \/ \E out \in Outcomes : Reply("poll", out, LiveFaulty)
    \/ \E ctor \in CtorOutcomes : PollStart(ctor)
    \/ \E out \in ConnectOutcomes : PollConnectDone(out)

NextLive ==
    \/ PollStep
    \/ LinkDrop
    \/ Heal

SpecLive == Init /\ [][NextLive]_vars /\ WF_vars(PollStep)


\* The client alone, from its construction: one caller making one call after
\* the other (connect, close, the commands).
InitClient ==
    /\ clientObj = "None"
    /\ locked = FALSE
    /\ waiters = << >>
    /\ pc = [t \in Tasks |-> "idle"]
    /\ op = [t \in Tasks |-> NoOp]
    /\ todo = [t \in CmdTasks |-> << >>]
    /\ ret = [t \in CmdTasks |-> "none"]
    /\ batch = 0
    /\ data = {}
    /\ okReads = {}
    /\ failures = 0
    /\ interval = DEFAULT_SCAN_INTERVAL
    /\ lastCycle = "none"
    /\ returned = {}
    /\ failedRun = 0
    /\ log = << NoEv, NoEv, NoEv >>
    /\ pending = << >>
    /\ before = [failures |-> 0, interval |-> DEFAULT_SCAN_INTERVAL,
                 healthy |-> FALSE, done |-> NoCall]
    /\ conn = [last |-> "none", result |-> "none", failedBefore |-> FALSE]
    /\ closes = NoCloses
    /\ decoded = NoValues
    /\ healthy = FALSE
    /\ warned = FALSE
    /\ trace = [t \in {"cmd1"} |-> NoRecord]
    /\ dev = [a \in REG_MODBUS_CONTROL .. REG_DESIRED_FLOW_RATE |-> 0]

NextClient ==
    \/ \E c \in CommandEncoderCalls : CmdStart("cmd1", c)
    \/ Send("cmd1")
    \/ \E out \in Outcomes : Reply("cmd1", out, {})
    \/ \E ctor \in CtorOutcomes : ApiConnect("cmd1", ctor)
    \/ \E out \in ConnectOutcomes : ApiConnectDone("cmd1", out)
    \/ ApiClose("cmd1")
    \/ LinkDrop

SpecClient == InitClient /\ [][NextClient]_vars

\* A caller setting the bypass mode while the coordinator polls, the device
\* keeping the bypass configuration registers 6100-6102.
BypassConfig ==
    {[a \in BatchAddrs(14) |->
         IF a = REG_BYPASS_MODE THEN w
         ELSE IF a = REG_BYPASS_TEMP_DWELLING THEN 220 ELSE 100] : w \in {0, 3}}

InitRoundTrip ==
    /\ clientObj = "connected"
    /\ locked = FALSE
    /\ waiters = << >>
    /\ pc = [t \in Tasks |-> "idle"]
    /\ op = [t \in Tasks |-> NoOp]
    /\ todo = [t \in CmdTasks |-> << >>]
    /\ ret = [t \in CmdTasks |-> "none"]
    /\ batch = 0
    /\ data = {}
    /\ okReads = {}
    /\ failures = 0
    /\ interval = DEFAULT_SCAN_INTERVAL
    /\ lastCycle = "none"
    /\ returned = {}
    /\ failedRun = 0
    /\ log = << NoEv, NoEv, NoEv >>
    /\ pending = << >>
    /\ before = [failures |-> 0, interval |-> DEFAULT_SCAN_INTERVAL,
                 healthy |-> FALSE, done |-> NoCall]
    /\ conn = [last |-> "none", result |-> "none", failedBefore |-> FALSE]
    /\ closes = NoCloses
    /\ decoded = NoValues
    /\ healthy = FALSE
    /\ warned = FALSE
    /\ trace = [t \in {"cmd1"} |-> NoRecord]
    /\ dev \in BypassConfig

NextRoundTrip ==
    \/ \E m \in BypassInputs : CmdStart("cmd1", Cmd("set_bypass_mode", m, 0))
    \/ \E t \in {"poll", "cmd1"} : Wake(t)
    \/ \E t \in {"poll", "cmd1"} : Send(t)
    \/ \E t \in {"poll", "cmd1"}, out \in Outcomes : Reply(t, out, {14})
    \/ \E ctor \in CtorOutcomes : PollStart(ctor)
    \/ \E out \in ConnectOutcomes : PollConnectDone(out)
    \/ LinkDrop

SpecRoundTrip == InitRoundTrip /\ [][NextRoundTrip]_vars

\* A caller setting the airflow mode or the flow rate while the coordinator
\* polls over a link that stays up, the device keeping the remote-control
\* registers 8000-8003: at first under the wall unit's control with the
\* switch at 3 and not in standby. Single writes and reads still fail.
ControlConfig ==
    [a \in BatchAddrs(16) |->
        IF a = REG_MODBUS_CONTROL THEN 0
        ELSE IF a = REG_SWITCH_POSITION THEN 3
        ELSE IF a = REG_DESIRED_FLOW_RATE THEN 0 ELSE 2]
AirflowCalls ==
    {Cmd("set_airflow_mode", m, 0) :
        m \in {"wall_unit", "holiday", "low", "normal", "high"}}
    \cup {Cmd("set_custom_flow_rate", "", 500)}

InitAirflow ==
    /\ clientObj = "connected"
    /\ locked = FALSE
    /\ waiters = << >>
    /\ pc = [t \in Tasks |-> "idle"]
    /\ op = [t \in Tasks |-> NoOp]
    /\ todo = [t \in CmdTasks |-> << >>]
    /\ ret = [t \in CmdTasks |-> "none"]
    /\ batch = 0
    /\ data = {}
    /\ okReads = {}
    /\ failures = 0
    /\ interval = DEFAULT_SCAN_INTERVAL
    /\ lastCycle = "none"
    /\ returned = {}
    /\ failedRun = 0
    /\ log = << NoEv, NoEv, NoEv >>
    /\ pending = << >>
    /\ before = [failures |-> 0, interval |-> DEFAULT_SCAN_INTERVAL,
                 healthy |-> TRUE, done |-> NoCall]
    /\ conn = [last |-> "none", result |-> "none", failedBefore |-> FALSE]
    /\ closes = NoCloses
    /\ decoded = NoValues
    /\ healthy = TRUE
    /\ warned = FALSE
    /\ trace = [t \in {"cmd1"} |-> NoRecord]
    /\ dev = ControlConfig

NextAirflow ==
    \/ \E c \in AirflowCalls : CmdStart("cmd1", c)
    \/ \E t \in {"poll", "cmd1"} : Wake(t)
    \/ \E t \in {"poll", "cmd1"} : Send(t)
    \/ \E t \in {"poll", "cmd1"}, out \in Outcomes : Reply(t, out, {16})
    \/ \E ctor \in CtorOutcomes : PollStart(ctor)

SpecAirflow == InitAirflow /\ [][NextAirflow]_vars

\* Two callers issuing two-write commands at the same time on a connected
\* client, the device keeping registers 8000-8002.
RaceCalls ==
    {Cmd("set_airflow_mode", "low", 0), Cmd("set_airflow_mode", "high", 0),
     Cmd("set_custom_flow_rate", "", 150)}

InitRace ==
    /\ clientObj = "connected"
    /\ locked = FALSE
    /\ waiters = << >>
    /\ pc = [t \in Tasks |-> "idle"]
    /\ op = [t \in Tasks |-> NoOp]
    /\ todo = [t \in CmdTasks |-> << >>]
    /\ ret = [t \in CmdTasks |-> "none"]
    /\ batch = 0
    /\ data = {}
    /\ okReads = {}
    /\ failures = 0
    /\ interval = DEFAULT_SCAN_INTERVAL
    /\ lastCycle = "none"
    /\ returned = {}
    /\ failedRun = 0
    /\ log = << NoEv, NoEv, NoEv >>
    /\ pending = << >>
    /\ before = [failures |-> 0, interval |-> DEFAULT_SCAN_INTERVAL,
                 healthy |-> FALSE, done |-> NoCall]
    /\ conn = [last |-> "none", result |-> "none", failedBefore |-> FALSE]
    /\ closes = NoCloses
    /\ decoded = NoValues
    /\ healthy = FALSE
    /\ warned = FALSE
    /\ trace = [t \in CmdTasks |-> NoRecord]
    /\ dev = [a \in REG_MODBUS_CONTROL .. REG_DESIRED_FLOW_RATE |-> 0]

NextRace ==
    \/ \E t \in CmdTasks, c \in RaceCalls : CmdStart(t, c)
    \/ \E t \in CmdTasks : Wake(t)
    \/ \E t \in CmdTasks : Send(t)
    \/ \E t \in CmdTasks, out \in Outcomes : Reply(t, out, {})

SpecRace == InitRace /\ [][NextRace]_vars

\* The gate under contention: the coordinator polling over a link that stays
\* up while two callers issue commands. The event loop runs every task that
\* can run (a waiter whose turn has come, a pacing sleep that is over) and
\* every transport call ends (the library's timeouts).
GateCalls == {Cmd("set_airflow_mode", "low", 0), Cmd("reset_filter", "", 0)}

InitGate ==
    /\ clientObj = "connected"
    /\ locked = FALSE
    /\ waiters = << >>
    /\ pc = [t \in Tasks |-> "idle"]
    /\ op = [t \in Tasks |-> NoOp]
    /\ todo = [t \in CmdTasks |-> << >>]
    /\ ret = [t \in CmdTasks |-> "none"]
    /\ batch = 0
    /\ data = {}
    /\ okReads = {}
    /\ failures = 0
    /\ interval = DEFAULT_SCAN_INTERVAL
    /\ lastCycle = "none"
    /\ returned = {}
    /\ failedRun = 0
    /\ log = << NoEv, NoEv, NoEv >>
    /\ pending = << >>
    /\ before = [failures |-> 0, interval |-> DEFAULT_SCAN_INTERVAL,
                 healthy |-> TRUE, done |-> NoCall]
    /\ conn = [last |-> "none", result |-> "none", failedBefore |-> FALSE]
    /\ closes = NoCloses
    /\ decoded = NoValues
    /\ healthy = TRUE
    /\ warned = FALSE
    /\ trace = [t \in {} |-> NoRecord]
    /\ dev = [a \in {} |-> 0]

NextGate ==
    \/ \E t \in CmdTasks, c \in GateCalls : CmdStart(t, c)
    \/ \E t \in Tasks : Wake(t)
    \/ \E t \in Tasks : Send(t)
    \/ \E t \in Tasks, out \in Outcomes : Reply(t, out, {})
    \/ \E ctor \in CtorOutcomes : PollStart(ctor)

SpecGate ==
    /\ InitGate /\ [][NextGate]_vars
    /\ \A t \in Tasks :
           /\ WF_vars(Wake(t))
           /\ WF_vars(Send(t))
           /\ WF_vars(\E out \in Outcomes : Reply(t, out, {}))

\* The decoding of read_all_data alone: the words of one batch are given,
\* the batch is decoded. A sweep takes one register of a batch through every
\* word, the batch's other registers holding one word:
\* <<batch, index in regs, word of the other registers>>.
Sweeps ==
    {<<7, 2, 0>>, <<7, 3, 0>>, <<7, 4, 0>>, <<2, 8, 0>>, <<3, 8, 0>>,
     <<9, 1, 0>>, <<9, 1, 65535>>, <<9, 2, 1>>,
     <<16, 1, 0>>, <<16, 1, 4>>, <<16, 2, 1>>}
SweepInput(sw, w) ==
    [a \in BatchAddrs(sw[1]) |->
        IF a = Batches[sw[1]].addr + sw[2] - 1 THEN w ELSE sw[3]]
\* 0x1234, 0x5678, 0x9012, 0x0000, 0xFFFF, 0x0A0B
SerialWords == {4660, 22136, 36882, 0, 65535, 2571}
SerialInputs == [BatchAddrs(12) -> SerialWords]

InitDecode ==
    /\ clientObj = "connected"
    /\ locked = FALSE
    /\ waiters = << >>
    /\ pc = [t \in Tasks |-> "idle"]
    /\ op = [t \in Tasks |-> NoOp]
    /\ todo = [t \in CmdTasks |-> << >>]
    /\ ret = [t \in CmdTasks |-> "none"]
    /\ batch = 0
    /\ data = {}
    /\ okReads = {}
    /\ failures = 0
    /\ interval = DEFAULT_SCAN_INTERVAL
    /\ lastCycle = "none"
    /\ returned = {}
    /\ failedRun = 0
    /\ log = << NoEv, NoEv, NoEv >>
    /\ pending = << >>
    /\ before = [failures |-> 0, interval |-> DEFAULT_SCAN_INTERVAL,
                 healthy |-> FALSE, done |-> NoCall]
    /\ conn = [last |-> "none", result |-> "none", failedBefore |-> FALSE]
    /\ closes = NoCloses
    /\ decoded = NoValues
    /\ healthy = FALSE
    /\ warned = FALSE
    /\ trace = [t \in {} |-> NoRecord]
    /\ \/ \E sw \in Sweeps, w \in Words : dev = SweepInput(sw, w)
       \/ dev \in SerialInputs

NextDecode == \E b \in DecodedBatches : DecodeStep(b)

SpecDecode == InitDecode /\ [][NextDecode]_vars


\* --------------------------------------------------------------- claims

InGate == {t \in Tasks : pc[t] \in {"sleep", "wire"}}
OnWire == {t \in Tasks : pc[t] = "wire"}
AllBatches == 1..NumBatches
CycleOver == pc["poll"] = "idle" /\ lastCycle \notin {"none", "running"}

\* C1: at most one register operation is inside the gate (in its pacing delay
\* or with its request on the wire) at any time, and it holds the lock: the
\* frames of two operations never overlap, whatever the interleaving of the
\* poll cycle and the commands.
C1_SingleFlight ==
    /\ Cardinality(OnWire) <= 1
    /\ Cardinality(InGate) <= 1
    /\ InGate # {} => locked

\* A poll read is on the wire while both callers' writes wait for the gate.
C1_Witness ==
    /\ pc["poll"] = "wire"
    /\ pc["cmd1"] = "waiting"
    /\ pc["cmd2"] = "waiting"
    /\ op["cmd1"].kind = "write"

\* C2: every wire request comes right after the pacing delay of the same
\* operation, that delay comes right after the same operation took the gate,
\* and the gate is taken only when no operation is running (at the start, or
\* after the previous operation completed).
C2_PacingOrder ==
    /\ log[3].e = "request" => log[2] = Ev("delay", log[3].t)
    /\ log[3].e = "delay" =>
          /\ log[2] = Ev("gate", log[3].t)
          /\ log[1].e \in {"none", "done"}
    /\ \A t \in OnWire : log[3] = Ev("request", t)

\* A request sent after its own delay, the gate taken right after another
\* task's operation completed.
C2_Witness ==
    /\ log[3].e = "delay"
    /\ log[1].e = "done"
    /\ log[1].t # log[3].t
    /\ log[3].t = "poll"

\* C3: the operation inside the gate and not yet on the wire is the one
\* submitted first among those not yet on the wire: operations reach the wire
\* in the order they were submitted, none overtakes.
C3_Fifo ==
    \A t \in Tasks :
        pc[t] = "sleep" => (pending # << >> /\ Head(pending) = t)

\* One operation about to be sent, two more submitted behind it.
C3_Witness ==
    /\ Len(pending) = 3
    /\ pc[Head(pending)] = "sleep"
    /\ Len(waiters) = 2

\* C4: after three failed cycles in a row the interval is Backoff, and a cycle
\* that returns a snapshot leaves the interval Normal and the counter 0.
C4_Backoff ==
    /\ (CycleOver /\ failedRun >= MAX_FAILURES_BEFORE_BACKOFF) =>
           interval = BACKOFF_INTERVAL
    /\ lastCycle = "snapshot" =>
           (interval = DEFAULT_SCAN_INTERVAL /\ failures = 0)

\* C5: a cycle that returned a snapshot, with optional batches missing or
\* not, leaves the counter at 0 and the interval Normal.
C5_SnapshotResets ==
    lastCycle = "snapshot" =>
        (failures = 0 /\ interval = DEFAULT_SCAN_INTERVAL)

\* A snapshot with batches missing, returned by a cycle that started in
\* Backoff with the counter at the threshold or above.
C5_Witness ==
    /\ lastCycle = "snapshot"
    /\ before.interval = BACKOFF_INTERVAL
    /\ before.failures >= MAX_FAILURES_BEFORE_BACKOFF
    /\ okReads # AllBatches
    /\ failures = 0

\* C6: a read after the first is issued only when the first batch was read,
\* and a cycle whose first batch failed ended as failed, with no snapshot,
\* after that one read.
C6_LoadBearing ==
    /\ batch >= 2 => 1 \in okReads
    /\ (CycleOver /\ batch >= 1 /\ 1 \notin okReads) =>
           /\ batch = 1
           /\ lastCycle # "snapshot"
           /\ returned = {}

\* The first batch read failed and the cycle ended with UpdateFailed.
C6_Witness ==
    /\ CycleOver
    /\ batch = 1
    /\ 1 \notin okReads
    /\ lastCycle = "UpdateFailed"
    /\ clientObj = "disconnected"

\* C7: in a returned snapshot a batch's keys are present exactly when that
\* batch's read succeeded in the cycle that returned it.
C7_FieldPresence ==
    lastCycle = "snapshot" =>
        \A b \in AllBatches : \A f \in Batches[b].fields :
            f \in returned <=> b \in okReads

\* A snapshot in which two optional batches are missing and the others are
\* present.
C7_Witness ==
    /\ lastCycle = "snapshot"
    /\ okReads = AllBatches \ {2, 14}
    /\ returned = FieldsOf(AllBatches \ {2, 14})

\* C8: no I/O error of the transport call leaves a read or write primitive
\* as an exception.
C8_NoEscape ==
    /\ \A t \in CmdTasks : ret[t] # "OSError"
    /\ lastCycle # "OSError"

\* C9: every command ends by returning success or failure, in every state
\* of the transport.
C9_CommandsNeverRaise ==
    \A t \in CmdTasks : ret[t] \in {"none", "True", "False"}

\* C10: connect() returns true or false and never lets an exception out; an
\* error while building or opening the link gives false, and the caller can
\* call connect() again.
C10_ConnectReportsFailure ==
    /\ conn.result \in {"none", "True", "False"}
    /\ conn.last \in {"ctor", "False", "TimeoutError", "OSError"} =>
           /\ conn.result = "False"
           /\ pc["cmd1"] = "idle" => ENABLED ApiConnect("cmd1", "ok")
    /\ conn.last = "True" => conn.result = "True"

\* A connect() that succeeded after an earlier one had failed with an error.
C10_Witness ==
    /\ conn.failedBefore
    /\ conn.last = "True"
    /\ conn.result = "True"
    /\ clientObj = "connected"

\* The followed caller's record.
Caller == trace["cmd1"]

\* C11: a set_airflow_mode with a mode outside wall_unit, holiday, low,
\* normal, high, and a set_bypass_mode with a name outside Automatic, Closed,
\* Open, issue no register write, never take the gate, and return failure.
C11_ValidationBeforeWrite ==
    (\/ /\ Caller.call.name = "set_airflow_mode"
        /\ Caller.call.mode \notin {"wall_unit", "holiday", "low", "normal", "high"}
     \/ /\ Caller.call.name = "set_bypass_mode"
        /\ Caller.call.mode \notin {"Automatic", "Closed", "Open"}) =>
        /\ Caller.ops = << >>
        /\ Caller.gates = 0
        /\ ~locked
        /\ pc["cmd1"] = "idle"
        /\ ret["cmd1"] = "False"

\* An unknown airflow mode rejected while the link is up.
C11_Witness ==
    /\ Caller.call = Cmd("set_airflow_mode", "turbo", 0)
    /\ clientObj = "connected"
    /\ ret["cmd1"] = "False"

\* C12: set_custom_flow_rate(r) is never rejected; it writes register 8000 = 2
\* first and then register 8002 = min(400, max(0, r)), the second only after
\* the first; a call that returned success issued both; the value written to
\* 8002 is within 0..400.
C12_FlowRateClamped ==
    Caller.call.name = "set_custom_flow_rate" =>
        LET want == << Write(8000, 2),
                       Write(8002, Min(400, Max(0, Caller.call.num))) >>
        IN /\ Len(Caller.ops) \in 1 .. 2
           /\ Caller.ops = SubSeq(want, 1, Len(Caller.ops))
           /\ ret["cmd1"] = "True" => Caller.ops = want
           /\ \A i \in DOMAIN Caller.ops :
                  Caller.ops[i].addr = 8002 => Caller.ops[i].n \in 0 .. 400

\* set_custom_flow_rate(500) returned success and wrote 400.
C12_Witness ==
    /\ Caller.call = Cmd("set_custom_flow_rate", "", 500)
    /\ Caller.ops = << Write(8000, 2), Write(8002, 400) >>
    /\ ret["cmd1"] = "True"

\* t * 10 truncated to an integer, for t given in hundredths of a degree.
Trunc10(h) ==
    CHOOSE k \in -1000 .. 1000 :
        \/ h >= 0 /\ 10 * k <= h /\ h < 10 * (k + 1)
        \/ h < 0 /\ 10 * k >= h /\ h > 10 * (k - 1)

\* C13: set_bypass_temp_dwelling(t) issues exactly one write, of register
\* 6101 with trunc(t * 10) clamped to 150..350; set_bypass_temp_outside(t)
\* issues exactly one write, of register 6102 with trunc(t * 10) clamped to
\* 70..150.
C13_BypassThresholds ==
    /\ Caller.call.name = "set_bypass_temp_dwelling" =>
           /\ Caller.ops =
                  << Write(6101, Min(350, Max(150, Trunc10(Caller.call.num)))) >>
           /\ Caller.ops[1].n \in 150 .. 350
    /\ Caller.call.name = "set_bypass_temp_outside" =>
           /\ Caller.ops =
                  << Write(6102, Min(150, Max(70, Trunc10(Caller.call.num)))) >>
           /\ Caller.ops[1].n \in 70 .. 150

\* set_bypass_temp_dwelling(20.99) returned success and wrote 209.
C13_Witness ==
    /\ Caller.call = Cmd("set_bypass_temp_dwelling", "", 2099)
    /\ Caller.ops = << Write(6101, 209) >>
    /\ ret["cmd1"] = "True"

\* C16: after close() the client is disconnected and the call returned
\* without an error, on a client never connected as well; a second close()
\* right after the first leaves the client as the first left it.
C16_CloseIdempotent ==
    closes.n >= 1 =>
        /\ ret["cmd1"] = "none"
        /\ clientObj \in {"None", "disconnected"}
        /\ clientObj = closes.after

\* close() called twice in a row on a client that was never connected.
C16_Witness ==
    /\ closes.n = 2
    /\ clientObj = "None"
    /\ conn.last = "none"

\* C14: a set_bypass_mode(m) that returned success, followed by a poll cycle
\* that read the bypass configuration batch and returned a snapshot, with no
\* call of the caller in between, gives bypass_mode = m in that snapshot.
C14_BypassRoundTrip ==
    (/\ lastCycle = "snapshot"
     /\ 14 \in okReads
     /\ before.done.name = "set_bypass_mode") =>
        /\ "bypass_mode" \in returned
        /\ decoded["bypass_mode"] = LabelVal(before.done.mode)

\* set_bypass_mode("Closed") on a device that held another mode, read back.
C14_Witness ==
    /\ lastCycle = "snapshot"
    /\ before.done = Cmd("set_bypass_mode", "Closed", 0)
    /\ "bypass_mode" \in DOMAIN decoded
    /\ decoded["bypass_mode"] = LabelVal("Closed")
    /\ dev[REG_BYPASS_MODE] = 1

\* A cycle that started after the outage ended returned a snapshot and left
\* the counter at 0 and the interval Normal.
Recovered ==
    /\ lastCycle = "snapshot"
    /\ before.healthy
    /\ failures = 0
    /\ interval = DEFAULT_SCAN_INTERVAL

\* C15: no failure state is absorbing: whenever the coordinator is between
\* cycles a further cycle can start, and a running cycle is at its connect
\* or has issued the first batch read; and once connect and the first batch
\* read succeed from some point on, eventually a cycle returns a snapshot
\* with the counter 0 and the interval Normal.
C15_NoFatalState ==
    /\ [](pc["poll"] = "idle" => ENABLED (\E ctor \in CtorOutcomes : PollStart(ctor)))
    /\ [](lastCycle = "running" => (pc["poll"] = "connecting" \/ batch >= 1))
    /\ healthy ~> Recovered

\* The word of register a as a signed 16-bit number.
Signed16(a) == IF dev[a] >= 32768 THEN dev[a] - 65536 ELSE dev[a]
\* The dict holds key f.
Has(f) == f \in DOMAIN decoded

\* C17: a word w of 0..65535 decodes as signed to w - 65536 when w >= 0x8000
\* and to w otherwise, a number of -32768..32767 (the outside temperature of
\* register 4081 is that number of tenths).
C17_SignedDecode ==
    Has("outside_temperature") =>
        LET w == dev[4081]
            v == decoded["outside_temperature"]
        IN /\ v.kind = "tenths"
           /\ w >= 32768 => v.n = w - 65536
           /\ w < 32768 => v.n = w
           /\ v.n \in -32768 .. 32767

\* The word 0x8000 decoded to -32768.
C17_Witness ==
    /\ Has("outside_temperature")
    /\ dev[4081] = 32768
    /\ decoded["outside_temperature"] = TenthsVal(-32768)

\* The humidity fields, each with its batch and its register.
HumidityFields ==
    {<<"supply_fan_humidity", 2, 4037>>, <<"exhaust_fan_humidity", 3, 4047>>,
     <<"rht_humidity", 7, 4083>>}

\* C18: each humidity field of a batch that was read is a key of the dict;
\* a raw word above 1000 gives it the value None, a raw word r <= 1000 gives
\* r tenths of a percent.
C18_HumidityDecode ==
    \A h \in HumidityFields :
        (\E f \in Batches[h[2]].fields : Has(f)) =>
            /\ Has(h[1])
            /\ h[1] \in Batches[h[2]].fields
            /\ dev[h[3]] > 1000 => decoded[h[1]] = NoneVal
            /\ dev[h[3]] <= 1000 => decoded[h[1]] = TenthsVal(dev[h[3]])

\* Raw 1001 decoded to None, the key present.
C18_Witness ==
    /\ Has("rht_humidity")
    /\ dev[4083] = 1001
    /\ decoded["rht_humidity"] = NoneVal

\* C19: the dwelling temperature is None when the signed word of register
\* 4082 is 9999, and that signed number of tenths of a degree otherwise.
C19_DwellingDecode ==
    Has("dwelling_temperature") =>
        /\ Signed16(4082) = 9999 => decoded["dwelling_temperature"] = NoneVal
        /\ Signed16(4082) # 9999 =>
               decoded["dwelling_temperature"] = TenthsVal(Signed16(4082))

\* Raw 9999 decoded to None.
C19_Witness ==
    /\ Has("dwelling_temperature")
    /\ dev[4082] = 9999
    /\ decoded["dwelling_temperature"] = NoneVal

\* Nibble j (1 the most significant) of a word, and a number in decimal.
Nibble(w, j) ==
    CASE j = 1 -> (w \div 4096) % 16 [] j = 2 -> (w \div 256) % 16
      [] j = 3 -> (w \div 16) % 16 [] j = 4 -> w % 16
Decimal(n) == IF n < 10 THEN << n >> ELSE << n \div 10, n % 10 >>
SerialNibbles ==
    [k \in 1 .. 12 |-> Nibble(dev[4010 + ((k - 1) \div 4)], ((k - 1) % 4) + 1)]
RECURSIVE Concat(_)
Concat(ss) == IF ss = << >> THEN << >> ELSE Head(ss) \o Concat(Tail(ss))

\* C20: the serial number is the twelve nibbles of the words of registers
\* 4010-4012 written one after the other, first word and most significant
\* nibble first; when every nibble is a decimal digit it has twelve
\* characters, one per nibble.
C20_SerialDecode ==
    Has("serial_number") =>
        LET text == decoded["serial_number"].d
        IN /\ decoded["serial_number"].kind = "text"
           /\ text = Concat([k \in 1 .. 12 |-> Decimal(SerialNibbles[k])])
           /\ (\A k \in 1 .. 12 : SerialNibbles[k] < 10) =>
                  /\ Len(text) = 12
                  /\ \A k \in 1 .. 12 : text[k] = SerialNibbles[k]

\* The words 0x1234, 0x5678, 0x9012 decoded to "123456789012".
C20_Witness ==
    /\ Has("serial_number")
    /\ dev[4010] = 4660 /\ dev[4011] = 22136 /\ dev[4012] = 36882
    /\ decoded["serial_number"] = TextVal(<< 1, 2, 3, 4, 5, 6, 7, 8, 9, 0, 1, 2 >>)

\* The number a two-word integer stands for, where it is below 2^31.
WideNum(v) == v.d[1] * 65536 + v.d[2]

\* C21: for the words high and low of registers 4113 and 4114,
\* operating_hours is the number high * 65536 + low, that is the two-word
\* integer whose upper word is high itself (no sign conversion, no loss of
\* the upper word) and whose lower word is low.
C21_OperatingHours ==
    Has("operating_hours") =>
        LET high == dev[4113]
            low == dev[4114]
            v == decoded["operating_hours"]
        IN /\ v.kind = "wide"
           /\ v.d = << high, low >>
           /\ high < 32768 => WideNum(v) = high * 65536 + low
           /\ (high < 32768 /\ high >= 1) => WideNum(v) >= 65536

\* The words high = 1, low = 0 decoded to 65536.
C21_Witness ==
    /\ Has("operating_hours")
    /\ dev[4113] = 1 /\ dev[4114] = 0
    /\ WideNum(decoded["operating_hours"]) = 65536

\* The preset a switch-position word names.
PresetOf(s) ==
    CASE s = 0 -> "holiday" [] s = 1 -> "low" [] s = 2 -> "normal"
      [] s = 3 -> "high" [] OTHER -> "unknown"

\* C28: for the control-mode word c of register 8000 and the switch-position
\* word s of register 8001, airflow_mode is "wall_unit" when c = 0, the
\* preset named by s when c = 1 and s is in 0..3, "unknown" when c = 1 and s
\* is not in the switch table, "custom" when c = 2 and "unknown" for every
\* other c; it is always a key of the dict of a remote-control batch that
\* was read, and one of the seven labels.
C28_AirflowModeDerived ==
    Has("modbus_control") =>
        /\ Has("airflow_mode")
        /\ LET c == dev[8000]
               s == dev[8001]
               v == decoded["airflow_mode"]
           IN /\ v.kind = "label"
              /\ c = 0 => v.s = "wall_unit"
              /\ (c = 1 /\ s \in 0 .. 3) => v.s = PresetOf(s)
              /\ (c = 1 /\ s \notin 0 .. 3) => v.s = "unknown"
              /\ c = 2 => v.s = "custom"
              /\ c \notin {0, 1, 2} => v.s = "unknown"
              /\ v.s \in {"wall_unit", "holiday", "low", "normal", "high",
                          "custom", "unknown"}

\* Control mode 1 with switch position 3 decoded to "high".
C28_Witness ==
    /\ Has("airflow_mode")
    /\ dev[8000] = 1 /\ dev[8001] = 3
    /\ decoded["airflow_mode"] = LabelVal("high")

\* The step ends the cycle at its connect step as a failed cycle: the counter
\* is one more, the interval is the Backoff interval from the third failure
\* on, UpdateFailed is raised, nothing is returned and no read was issued.
FailedAtConnect ==
    /\ pc'["poll"] = "idle"
    /\ lastCycle' = "UpdateFailed"
    /\ failures' = failures + 1
    /\ interval' = IF failures + 1 >= 3 THEN 120 ELSE interval
    /\ returned' = {}
    /\ batch' = 0
    /\ op' = op /\ log' = log

\* C22: a poll cycle that starts with the transport disconnected calls
\* connect() before anything else and issues no read in that step; when
\* connect() does not leave the client connected, the counter is incremented,
\* backoff is evaluated, the cycle is reported failed with no snapshot, and no
\* register read is issued in that cycle.
C22_DisconnectedStart ==
    [][/\ (pc["poll"] = "idle" /\ clientObj # "connected") =>
             /\ batch' = 0
             /\ op' = op
             /\ pc'["poll"] \in {"connecting", "idle"}
             /\ pc'["poll"] = "idle" => FailedAtConnect
       /\ pc["poll"] = "connecting" =>
             \/ clientObj' = "connected" /\ batch' = 1 /\ lastCycle' = "running"
             \/ clientObj' # "connected" /\ FailedAtConnect]_vars

\* A cycle failed at its connect step with the third failure in a row: the
\* counter went from 2 to 3 and the interval from 30 to 120.
C22_Witness ==
    /\ CycleOver /\ batch = 0
    /\ lastCycle = "UpdateFailed"
    /\ before.failures = 2 /\ failures = 3
    /\ before.interval = 30 /\ interval = 120
    /\ returned = {}

\* C23: a cycle that ended failed at the connect step or at the first batch
\* read has incremented the counter, evaluated the backoff threshold and left
\* the transport disconnected, so that the next cycle starts with connect().
C23_FailedCycleDisconnects ==
    (CycleOver /\ lastCycle # "snapshot" /\ batch <= 1) =>
        /\ failures = before.failures + 1
        /\ interval = IF failures >= 3 THEN 120 ELSE before.interval
        /\ clientObj # "connected"

\* C24: the warning is logged by exactly the failed cycle that takes the
\* interval from Normal to Backoff, the one whose failure brings the counter to
\* 3; a failed cycle that starts in Backoff logs nothing and leaves the
\* interval at 120; the interval leaves 120 only in a cycle that returns a
\* snapshot.
C24_BackoffOnce ==
    /\ CycleOver =>
          /\ warned <=> (before.interval # 120 /\ interval = 120)
          /\ warned => (lastCycle = "UpdateFailed" /\ before.failures = 2
                            /\ failures = 3)
          /\ (before.interval = 120 /\ lastCycle # "snapshot") =>
                 (interval = 120 /\ ~warned)
          /\ (before.interval = 120 /\ interval # 120) =>
                 (lastCycle = "snapshot" /\ interval = 30)
    /\ lastCycle = "running" => (~warned /\ interval = before.interval)

\* A failed cycle that started in Backoff: the counter went from 3 to 4, the
\* interval stayed at 120 and no warning was logged again.
C24_Witness ==
    /\ CycleOver /\ lastCycle = "UpdateFailed"
    /\ before.failures = 3 /\ failures = 4
    /\ before.interval = 120 /\ interval = 120
    /\ ~warned

\* C25: the client is not connected before any connect() call and while a
\* connect() call is in progress, is not connected after close(), and is not
\* connected after a command one of whose register operations returned
\* failure.
C25_ConnectionLifecycle ==
    /\ conn.last \in {"none", "pending"} => clientObj # "connected"
    /\ closes.n > 0 => clientObj # "connected"
    /\ (pc["cmd1"] = "idle" /\ Caller.res # << >>
            /\ Caller.res[Len(Caller.res)] = "fail") =>
           clientObj # "connected"

\* The switch code of a preset.
CodeOf(m) ==
    CASE m = "holiday" -> 0 [] m = "low" -> 1 [] m = "normal" -> 2
      [] m = "high" -> 3

\* C26: set_airflow_mode("wall_unit") issues exactly one write, register
\* 8000 = 0, and none to register 8001; for a preset of holiday, low, normal,
\* high it issues register 8000 = 1 first and then register 8001 = the
\* preset's code 0, 1, 2, 3, the second only after the first returned
\* success, and a call that returned success issued exactly these two.
C26_AirflowWriteSequence ==
    Caller.call.name = "set_airflow_mode" =>
        /\ Caller.call.mode = "wall_unit" =>
               /\ Caller.ops = << Write(8000, 0) >>
               /\ \A i \in DOMAIN Caller.ops : Caller.ops[i].addr # 8001
        /\ Caller.call.mode \in {"holiday", "low", "normal", "high"} =>
               LET want == << Write(8000, 1),
                              Write(8001, CodeOf(Caller.call.mode)) >>
               IN /\ Len(Caller.ops) \in 1 .. 2
                  /\ Caller.ops = SubSeq(want, 1, Len(Caller.ops))
                  /\ Len(Caller.ops) = 2 => Caller.res[1] = "ok"
                  /\ ret["cmd1"] = "True" =>
                         (Caller.ops = want /\ dev[8000] = 1
                             /\ dev[8001] = CodeOf(Caller.call.mode))

\* set_airflow_mode("high") returned success: 8000 = 1, then 8001 = 3.
C26_Witness ==
    /\ Caller.call = Cmd("set_airflow_mode", "high", 0)
    /\ Caller.ops = << Write(8000, 1), Write(8001, 3) >>
    /\ ret["cmd1"] = "True"
    /\ dev[8000] = 1 /\ dev[8001] = 3

\* The followed call is a command of two writes.
TwoWrites ==
    \/ Caller.call.name = "set_custom_flow_rate"
    \/ /\ Caller.call.name = "set_airflow_mode"
       /\ Caller.call.mode \in {"holiday", "low", "normal", "high"}

EntityCommands ==
    {"set_airflow_mode", "set_bypass_mode", "set_custom_flow_rate",
     "set_bypass_temp_dwelling", "set_bypass_temp_outside", "reset_filter",
     "reset_appliance"}

\* C30: an entity action (airflow mode, bypass mode, custom flow rate, bypass
\* thresholds, filter reset, appliance reset) whose command returned success
\* has requested a refresh of the coordinator, and one whose command returned
\* failure has requested none.
C30_RefreshAfterWrite ==
    (Caller.call.name \in EntityCommands /\ pc["cmd1"] = "idle") =>
        /\ ret["cmd1"] = "True" => Caller.refresh
        /\ ret["cmd1"] = "False" => ~Caller.refresh

\* C29: a step that changes the consecutive-failure counter or the poll
\* interval is the step that ends a poll cycle (the cycle's connect step, or
\* its read in flight, ends and the coordinator raises UpdateFailed or
\* returns the snapshot); it is no step of a caller: no command, connect()
\* or close() call starts, proceeds or returns in it.
C29_PollStateFrame ==
    [][(failures' # failures \/ interval' # interval) =>
          /\ pc'["poll"] = "idle"
          /\ lastCycle' \in {"UpdateFailed", "snapshot"}
          /\ \/ pc["poll"] \in {"connecting", "wire"}
             \/ pc["poll"] = "idle" /\ clientObj # "connected" /\ batch' = 0
          /\ \A t \in CmdTasks :
                 pc'[t] = pc[t] /\ ret'[t] = ret[t] /\ todo'[t] = todo[t]
                     /\ op'[t] = op[t]
          /\ conn' = conn
          /\ closes' = closes]_vars

\* After two failed cycles the caller has called close(): the counter is
\* still 2 and the interval still 30.
C29_Witness ==
    /\ CycleOver /\ lastCycle = "UpdateFailed"
    /\ failures = 2 /\ interval = 30
    /\ closes.n > 0
    /\ pc["cmd1"] = "idle"

\* C31: between poll cycles the interval is 120 exactly when the counter is
\* at least 3 and 30 exactly when it is below 3, and the counter is never
\* negative.
C31_CounterInterval ==
    /\ failures >= 0
    /\ pc["poll"] = "idle" =>
          /\ interval = 120 <=> failures >= 3
          /\ interval = 30 <=> failures < 3

\* Between two cycles, the third failure in a row just counted: Backoff.
C31_Witness ==
    /\ CycleOver /\ lastCycle = "UpdateFailed"
    /\ failures = 3 /\ before.failures = 2
    /\ interval = 120

\* C38: a poll cycle that is over either failed and left the counter exactly
\* one above its value at the cycle's start, or returned a snapshot and left
\* it at 0; the cycle's connect() call is made only at its start, before any
\* read, and only by a cycle that found the client not connected.
C38_CounterStep ==
    /\ CycleOver =>
          \/ lastCycle = "snapshot" /\ failures = 0
          \/ lastCycle # "snapshot" /\ failures = before.failures + 1
    /\ pc["poll"] = "connecting" =>
          (batch = 0 /\ lastCycle = "running" /\ clientObj # "connected")

\* The poll cycle's connect() call starts in this step (the client object is
\* replaced by a new one); its close() call is made in this step.
HandleReplaced == pc["poll"] = "idle" /\ pc'["poll"] = "connecting"
HandleClosed ==
    /\ pc["poll"] = "wire" /\ pc'["poll"] = "idle"
    /\ lastCycle' = "UpdateFailed"
\* A caller's register operation holds the gate.
CommandInGate == \E t \in CmdTasks : pc[t] \in {"sleep", "wire"}

\* C35: the client object is neither closed nor replaced by the poll cycle
\* while a command's register operation holds the gate, that is between
\* its acquisition of the gate and the end of its wire request.
C35_HandleVersusGate ==
    [][(HandleReplaced \/ HandleClosed) => ~CommandInGate]_vars

\* The followed caller's command is under way.
CommandRuns == pc["cmd1"] \in {"waiting", "sleep", "wire"}

\* C36: no step of a command calls connect() or changes what the transport
\* reports, and a command whose last register operation ends while the
\* transport is disconnected (a client object that was opened and is closed)
\* returns failure, the transport staying disconnected.
C36_CommandsNeverReconnect ==
    [][(CommandRuns /\ (pc'["cmd1"] # pc["cmd1"] \/ op'["cmd1"] # op["cmd1"])) =>
          /\ pc'["cmd1"] # "connecting"
          /\ conn' = conn
          /\ clientObj' = clientObj
          /\ (clientObj = "disconnected" /\ pc'["cmd1"] = "idle") =>
                 ret'["cmd1"] = "False"]_vars

\* The poll's read of the remote-control batch is answered in this step.
ReadsRemote ==
    /\ pc["poll"] = "wire" /\ batch = 16
    /\ "airflow_mode" \in DOMAIN decoded'

\* C34: while a set_airflow_mode(preset) of the caller is under way, the
\* poll's read of registers 8000-8003 is never answered between the
\* command's two writes, and the airflow_mode it decodes is the mode in
\* force when the command was called or the mode the command asks for.
C34_SnapshotConsistency ==
    [][(/\ ReadsRemote
        /\ CommandRuns
        /\ Caller.call.name = "set_airflow_mode"
        /\ Caller.call.mode \in {"holiday", "low", "normal", "high"}) =>
          /\ Caller.res # << "ok" >>
          /\ decoded'["airflow_mode"].s \in {Caller.was, Caller.call.mode}]_vars

\* C37: after a set_airflow_mode(m) that returned success, a poll cycle that
\* started later, read the remote-control batch and returned a snapshot, with
\* no call of the caller in between, reports airflow_mode = m; after a
\* set_custom_flow_rate(r) that returned success it reports airflow_mode =
\* "custom" and desired_flow_rate = min(400, max(0, r)).
C37_AirflowRoundTrip ==
    (lastCycle = "snapshot" /\ 16 \in okReads) =>
        /\ before.done.name = "set_airflow_mode" =>
               /\ "airflow_mode" \in returned
               /\ decoded["airflow_mode"] = LabelVal(before.done.mode)
        /\ before.done.name = "set_custom_flow_rate" =>
               /\ {"airflow_mode", "desired_flow_rate"} \subseteq returned
               /\ decoded["airflow_mode"] = LabelVal("custom")
               /\ decoded["desired_flow_rate"] =
                      IntVal(Min(400, Max(0, before.done.num)))

\* set_custom_flow_rate(500) read back as custom with 400, on a device that
\* was under the wall unit's control.
C37_Witness ==
    /\ lastCycle = "snapshot" /\ 16 \in okReads
    /\ before.done = Cmd("set_custom_flow_rate", "", 500)
    /\ decoded["airflow_mode"] = LabelVal("custom")
    /\ decoded["desired_flow_rate"] = IntVal(400)
    /\ dev[8000] = 2 /\ dev[8002] = 400

\* The device registers d hold the configuration command c asks for.
HoldsConfig(c, d) ==
    IF c.name = "set_airflow_mode"
    THEN d[8000] = 1 /\ d[8001] = CodeOf(c.mode)
    ELSE d[8000] = 2 /\ d[8002] = Min(400, Max(0, c.num))
\* Caller t's command has had its first write acknowledged and its second
\* write is not answered yet.
BetweenWrites(t) == trace[t].res = << "ok" >>

\* C33: with two callers running two-write commands at the same time, in the
\* step in which a command returns success the device registers hold that
\* command's configuration, and no write of one caller is answered while the
\* other caller's command is between its two writes.
C33_TwoWriteCommandsAtomic ==
    [][\A t \in CmdTasks :
          /\ (pc[t] = "wire" /\ pc'[t] = "idle" /\ ret'[t] = "True") =>
                 HoldsConfig(trace[t].call, dev')
          /\ (pc[t] = "wire" /\ pc'[t] # "wire") =>
                 \A u \in CmdTasks \ {t} : ~BetweenWrites(u)]_vars

\* Task t is in a register operation; it holds the gate.
InOperation(t) == pc[t] \in {"waiting", "sleep", "wire"}
HoldsGate(t) == pc[t] \in {"sleep", "wire"}

\* C32: the gate is held exactly while a register operation is between its
\* acquisition and its exit, whatever the exit (result, error response,
\* exception), so with no operation in flight the gate is free and nobody
\* queues; and every operation that waits for the gate acquires it, and
\* every task in a register operation comes back from its operations.
C32_GateReleaseAndProgress ==
    /\ [](locked <=> \E t \in Tasks : HoldsGate(t))
    /\ []((\A t \in Tasks : ~InOperation(t)) => (~locked /\ waiters = << >>))
    /\ \A t \in Tasks : pc[t] = "waiting" ~> HoldsGate(t)
    /\ \A t \in Tasks : InOperation(t) ~> pc[t] = "idle"

\* The gate is free with no operation in flight, after a caller's transport
\* call ended with an exception that the primitive let out, the other
\* caller's command returned success and a poll cycle returned a snapshot.
C32_Witness ==
    /\ \A t \in Tasks : ~InOperation(t)
    /\ ~locked
    /\ ret["cmd1"] = "OSError"
    /\ ret["cmd2"] = "True"
    /\ lastCycle = "snapshot"

====
